---- MODULE Spec2Model ----
(***************************************************************************)
(* Nutrition-Tools (src/main.py): ingredient resolution -> normalisation   *)
(* -> conversion factor -> nutrient scaling -> recipe aggregation, and the *)
(* rate limiter in front of the two calls to the food-data source.         *)
(*                                                                         *)
(* Python values are modelled as follows.                                  *)
(*   None / x        : <<>> / <<x>>  (None, Some(x))                       *)
(*   float           : an exact rational <<n, d>>, d > 0, in lowest terms  *)
(*   dict            : a record; a dict used as a mapping with insertion   *)
(*                     order (ingredients) is a sequence of [name, ...]    *)
(*   raise E         : [ret |-> None, exc |-> "E"]                         *)
(***************************************************************************)
EXTENDS Integers, Sequences, FiniteSets, TLC

None == <<>>
Some(x) == <<x>>

Return(v) == [ret |-> v, exc |-> ""]
Raise(e) == [ret |-> None, exc |-> e]

(***************************************************************************)
(* Bounds of the model.                                                    *)
(***************************************************************************)
MaxIngredients == 2
MaxProfiles == 3
MaxCalls == 2100
MaxTime == 3600

(***************************************************************************)
(* Program constants (main.py:12-13).                                      *)
(***************************************************************************)
RATE_LIMIT == 1000
PERIOD == 3600

(***************************************************************************)
(* Exact rational arithmetic standing for Python floats.                   *)
(***************************************************************************)
Abs(x) == IF x < 0 THEN -x ELSE x

RECURSIVE GCD(_, _)
GCD(a, b) == IF b = 0 THEN a ELSE GCD(b, a % b)

Rat(n, d) ==
    LET g == GCD(Abs(n), Abs(d))
        s == IF d < 0 THEN -1 ELSE 1
    IN  <<(s * n) \div g, (s * d) \div g>>

RMul(a, b) == Rat(a[1] * b[1], a[2] * b[2])
RAdd(a, b) == Rat(a[1] * b[2] + b[1] * a[2], a[2] * b[2])
RInt(i) == <<i, 1>>

(***************************************************************************)
(* The unit registry (pint.UnitRegistry, main.py:48) restricted to the     *)
(* unit strings of the model.  "undetermined" and "handful" are not units  *)
(* of the registry.  scale is the size of the unit in the base unit of its *)
(* dimension (tablespoon for volume, gram for mass).                       *)
(***************************************************************************)
ureg_defined == {"cup", "tablespoon", "g"}

ureg_dim(u) == IF u = "g" THEN "mass" ELSE "volume"

ureg_scale(u) == IF u = "cup" THEN 16 ELSE 1

\* Quantity.to(std_unit) on amount[0] * ureg(amount[1]): the converted
\* magnitude, or the exception pint raises.
quantity_to(quantity, unit, std_unit) ==
    IF std_unit \notin ureg_defined THEN Raise("UndefinedUnitError")
    ELSE IF ureg_dim(unit) # ureg_dim(std_unit) THEN Raise("DimensionalityError")
    ELSE Return(Some(Rat(quantity * ureg_scale(unit), ureg_scale(std_unit))))

\* main.py:286-292
is_valid_unit(unit_str) == unit_str \in ureg_defined

(***************************************************************************)
(* Food Record Normalizer: process_food (main.py:219-284).                 *)
(* food_data is None or Some of                                            *)
(*   [fdcId, description, foodCategory,                                    *)
(*    foodNutrients : None | Some(seq of [name, unitName, amount]),        *)
(*    foodPortions  : None | Some(seq of [portionDescription, amount,      *)
(*                                        unit, gramWeight])]              *)
(* where None for foodNutrients / foodPortions is the key being absent, a  *)
(* nutrient's amount is None or Some(number), a portion's unit is          *)
(* measureUnit.name, and its amount and gramWeight are None or Some(number)*)
(***************************************************************************)
\* main.py:246-261
extract_nutrients(foodNutrients) ==
    LET kept == SelectSeq(foodNutrients, LAMBDA nutrient : nutrient.amount # None)
    IN  [j \in 1..Len(kept) |->
            [name |-> kept[j].name,
             unitName |-> kept[j].unitName,
             value |-> kept[j].amount[1]]]

\* main.py:269-279
extract_portions(foodPortions) ==
    LET kept == SelectSeq(foodPortions, LAMBDA portion : is_valid_unit(portion.unit))
    IN  [j \in 1..Len(kept) |->
            [description |-> kept[j].portionDescription,
             amount |-> kept[j].amount,
             unit |-> kept[j].unit,
             gramWeight |-> kept[j].gramWeight]]

process_food(fd) ==
    IF fd = None THEN None                                        \* 230-232
    ELSE IF fd[1].foodNutrients = None THEN None                  \* 262-264
    ELSE IF fd[1].foodPortions = None \/ fd[1].foodPortions[1] = <<>>
         THEN None                                                \* 280-283
    ELSE Some([fdcId |-> fd[1].fdcId,
               description |-> fd[1].description,
               foodCategory |-> fd[1].foodCategory,
               nutrients |-> extract_nutrients(fd[1].foodNutrients[1]),
               portions |-> extract_portions(fd[1].foodPortions[1])])

(***************************************************************************)
(* Conversion Factor Calculator: calculate_conversion_factor               *)
(* (main.py:340-380).  amount is [quantity, unit].  The result is          *)
(* Return(None), Return(Some(factor)) or Raise(exception): only a failure  *)
(* of amt_val.to(std_unit) is inside the try (369-374).                    *)
(***************************************************************************)
reference_portion_last(portions) == portions[Len(portions)]

\* main.py:360
reference_portion(portions) == portions[1]

\* main.py:378
conversion_formula(multiplier, gram_weight, std_qty) ==
    Rat(multiplier[1] * gram_weight, multiplier[2] * std_qty * 100)

calculate_conversion_factor(pf, amount) ==
    IF pf = None THEN Return(None)                                \* 352-353
    ELSE IF pf[1].portions = <<>> THEN Return(None)               \* 355-358
    ELSE LET portion == reference_portion(pf[1].portions)
             std_qty == portion.amount
             std_unit == portion.unit
         IN  IF portion.gramWeight = None
             THEN Raise("TypeError")                              \* 361 float(None)
             ELSE IF amount.unit \notin ureg_defined
             THEN Raise("UndefinedUnitError")                     \* 368 ureg(amount[1])
             ELSE LET converted_val ==
                          quantity_to(amount.quantity, amount.unit, std_unit)
                  IN  IF converted_val.exc # ""
                      THEN Return(None)                           \* 372-374
                      ELSE IF std_qty = None
                      THEN Raise("TypeError")                     \* 378 None * 100
                      ELSE IF std_qty[1] = 0
                      THEN Raise("ZeroDivisionError")             \* 378
                      ELSE Return(Some(conversion_formula(
                               converted_val.ret[1], portion.gramWeight[1],
                               std_qty[1])))

(***************************************************************************)
(* Nutrient Scaler: compute_ingredient_nutrition (main.py:382-414).        *)
(* cf is None or Some(factor).  The profile's nutrients are Some(list): a  *)
(* profile is a dict that always has the key.                              *)
(***************************************************************************)
\* `not conversion_factor`: None or 0.0
falsy_factor(cf) == cf = None \/ cf[1][1] = 0

\* main.py:405-413 (a normalised nutrient never has value None)
scale_nutrients(nutrients, factor) ==
    [j \in 1..Len(nutrients) |->
        [name |-> nutrients[j].name,
         unitName |-> nutrients[j].unitName,
         value |-> RMul(RInt(nutrients[j].value), factor),
         isdict |-> TRUE]]

compute_ingredient_nutrition(pf, cf) ==
    IF pf = None \/ falsy_factor(cf) THEN None                    \* 393-395
    ELSE Some([fdcId |-> pf[1].fdcId,
               description |-> pf[1].description,
               foodCategory |-> pf[1].foodCategory,
               nutrients |-> Some(scale_nutrients(pf[1].nutrients, cf[1])),
               portions |-> pf[1].portions])

(***************************************************************************)
(* Recipe Aggregator: compute_recipe_nutrition (main.py:416-464).          *)
(* total_nutrients is a function from nutrient names to [value, unitName]. *)
(* A nutrient entry with isdict = FALSE is one that is not a dict: its     *)
(* .get raises AttributeError (447).                                       *)
(***************************************************************************)
add_nutrient_overwrite(total, nutrient) ==
    total @@ (nutrient.name :>
                 [value |-> nutrient.value, unitName |-> nutrient.unitName])

add_nutrient_keep_first(total, nutrient) ==
    IF nutrient.name \in DOMAIN total THEN total
    ELSE total @@ (nutrient.name :>
                     [value |-> nutrient.value, unitName |-> nutrient.unitName])

\* main.py:447-456
add_nutrient(total, nutrient) ==
    IF nutrient.name \in DOMAIN total
    THEN [total EXCEPT ![nutrient.name].value = RAdd(@, nutrient.value)]
    ELSE total @@ (nutrient.name :>
                     [value |-> nutrient.value, unitName |-> nutrient.unitName])

\* main.py:446-456: the totals when the loop ends or raises; total_nutrients
\* is updated in place, so what was added before a fault stays.
RECURSIVE fold_nutrients(_, _)
fold_nutrients(total, nutrients) ==
    IF nutrients = <<>> THEN [total |-> total, exc |-> ""]
    ELSE IF ~Head(nutrients).isdict
         THEN [total |-> total, exc |-> "AttributeError"]
         ELSE fold_nutrients(add_nutrient(total, Head(nutrients)), Tail(nutrients))

\* main.py:441-460: one iteration of the loop over ultraprocessed_food.items()
\* on rn = [ingredients, totalNutrients]; entry = [name, profile].
fold_ingredient(rn, entry) ==
    IF entry.profile = None THEN rn                \* 444 None['nutrients']: TypeError
    ELSE IF entry.profile[1].nutrients = None THEN rn            \* 444 KeyError
    ELSE [ingredients |-> Append(rn.ingredients,                 \* 442-445
                                 [name |-> entry.name,
                                  nutrition |-> entry.profile[1].nutrients[1]]),
          totalNutrients |->
              fold_nutrients(rn.totalNutrients, entry.profile[1].nutrients[1]).total]

EmptyReport == [ingredients |-> <<>>, totalNutrients |-> <<>>]

\* main.py:427-464 as a whole, on the mapping in the order given
RECURSIVE fold_all(_, _)
fold_all(rn, entries) ==
    IF entries = <<>> THEN rn
    ELSE fold_all(fold_ingredient(rn, Head(entries)), Tail(entries))

compute_recipe_nutrition(entries) ==
    IF entries = <<>> THEN None ELSE Some(fold_all(EmptyReport, entries))

(***************************************************************************)
(* Food Resolver: best_match (main.py:130-165).  results is what           *)
(* search_food returned: None (transport failure), or Some(list of         *)
(* candidates [fdcId, description, score]), score standing for the fuzzy   *)
(* score of the description against the ingredient name.                   *)
(***************************************************************************)
\* process.extractOne (155): the first description with the highest score
extract_one(results) ==
    LET best == CHOOSE j \in 1..Len(results) :
                    /\ \A m \in 1..Len(results) : results[m].score <= results[j].score
                    /\ \A m \in 1..(j - 1) : results[m].score < results[j].score
    IN  results[best].description

best_match(results) ==
    IF results = None \/ results[1] = <<>> THEN None              \* 147-149
    ELSE LET best_match_description == extract_one(results[1])
             first == CHOOSE j \in 1..Len(results[1]) :           \* 158-163
                          /\ results[1][j].description = best_match_description
                          /\ \A m \in 1..(j - 1) :
                                 results[1][m].description # best_match_description
         IN  Some(results[1][first].fdcId)

(***************************************************************************)
(* Inputs: the ingredient list read from the CSV file and the responses of *)
(* the food-data source.                                                   *)
(***************************************************************************)
IngredientNames == <<"flour", "sugar", "butter", "egg", "salt">>

Request(q, u) == [quantity |-> q, unit |-> u]

Requests ==
    {Request(1, "cup"), Request(2, "tablespoon"), Request(1, "g"),
     Request(1, "handful")}

\* insertion-ordered dicts of at most n ingredients (keys are distinct)
IngredientLists(n) ==
    UNION {{[j \in 1..len |-> [name |-> IngredientNames[j],
                               quantity |-> rs[j].quantity,
                               unit |-> rs[j].unit]] :
               rs \in [1..len -> Requests]} : len \in 0..n}

Candidate(id, d, sc) == [fdcId |-> id, description |-> d, score |-> sc]

SearchResults ==
    {None, Some(<<>>),
     Some(<<Candidate(101, "Flour, wheat", 90)>>),
     Some(<<Candidate(101, "Flour, wheat", 90), Candidate(102, "Flour, rice", 90)>>),
     Some(<<Candidate(101, "Flour, wheat", 60), Candidate(102, "Flour, rice", 90)>>)}

RawNutrient(n, u, a) == [name |-> n, unitName |-> u, amount |-> a]

RawNutrientLists ==
    {None,
     Some(<<RawNutrient("Energy", "kcal", Some(364)),
            RawNutrient("Fiber", "g", None),
            RawNutrient("Protein", "g", Some(10))>>),
     Some(<<RawNutrient("Energy", "kJ", Some(1523))>>)}

RawPortion(a, u, g) ==
    [portionDescription |-> "", amount |-> a, unit |-> u, gramWeight |-> g]

RawPortionLists ==
    {None, Some(<<>>),
     Some(<<RawPortion(Some(1), "cup", Some(125))>>),
     Some(<<RawPortion(Some(1), "undetermined", Some(30))>>),
     Some(<<RawPortion(Some(1), "undetermined", Some(30)),
            RawPortion(Some(2), "tablespoon", Some(15))>>),
     Some(<<RawPortion(Some(100), "g", Some(100)),
            RawPortion(Some(1), "cup", Some(125))>>),
     Some(<<RawPortion(Some(0), "cup", Some(125))>>),
     Some(<<RawPortion(None, "cup", Some(125))>>),
     Some(<<RawPortion(Some(1), "cup", None)>>),
     Some(<<RawPortion(Some(1), "cup", Some(0))>>)}

\* what GET /fdc/v1/food/{fdc_id} can answer (190-198): no answer for the
\* id None, else a transport failure (None) or a record of that id
FoodDataFor(id) ==
    IF id = None THEN {None}
    ELSE {None} \cup
         {Some([fdcId |-> id[1],
                description |-> IF id[1] = 101 THEN "Flour, wheat" ELSE "Flour, rice",
                foodCategory |-> "Cereal Grains and Pasta",
                foodNutrients |-> ns,
                foodPortions |-> ps]) :
             ns \in RawNutrientLists, ps \in RawPortionLists}

(***************************************************************************)
(* State.                                                                  *)
(***************************************************************************)
VARIABLES
    pc,                    \* position in main / ultra_process_food / compute_recipe_nutrition
    api_key,               \* os.environ['API_FoodData_Central']
    ingredients,           \* load_ingredients_from_csv()
    i,                     \* index of the ingredient in the loop at 312
    fdc_id, food_data, processed_food, conversion_factor,   \* locals of the loop body
    processed_ingredients, \* the mapping built at 311-338, in insertion order
    k,                     \* index of the item in the loop at 437
    recipe_nutrition,      \* None before 431; its totalNutrients is total_nutrients
    exported,              \* what export_to_YAML wrote to recipe_nutrition.yaml
    fault,                 \* the exception that left main, "" if none
    now,                   \* the limiter's clock, in seconds
    num_calls, last_reset, \* per decorated function: RateLimitDecorator's fields
    admitted,              \* time -> number of requests let through at that time
    next_call, calls_made  \* the caller of the two decorated functions

vars == <<pc, api_key, ingredients, i, fdc_id, food_data, processed_food,
          conversion_factor, processed_ingredients, k, recipe_nutrition,
          exported, fault, now, num_calls, last_reset, admitted, next_call,
          calls_made>>

loop_vars == <<fdc_id, food_data, processed_food, conversion_factor>>
rate_vars == <<now, num_calls, last_reset, admitted, next_call, calls_made>>
agg_vars == <<k, recipe_nutrition, exported>>

Functions == {"search_food", "search_food_by_id"}

RateIdle ==
    /\ now = 0
    /\ num_calls = [f \in Functions |-> 0]
    /\ last_reset = [f \in Functions |-> 0]
    /\ admitted = (0 :> 0)
    /\ next_call = "search_food"
    /\ calls_made = 0

Init ==
    /\ pc = "main"
    /\ api_key \in {None, Some("key")}
    /\ ingredients \in IngredientLists(MaxIngredients)
    /\ i = 0
    /\ fdc_id = None /\ food_data = None
    /\ processed_food = None /\ conversion_factor = None
    /\ processed_ingredients = <<>>
    /\ k = 0
    /\ recipe_nutrition = None
    /\ exported = None
    /\ fault = ""
    /\ RateIdle

(***************************************************************************)
(* main (466-485) and ultra_process_food (294-338).                        *)
(***************************************************************************)
\* 472-479, 306-312
Main ==
    /\ pc = "main"
    /\ pc' = IF api_key = None THEN "no_key"
             ELSE IF ingredients = <<>> THEN "compute_recipe_nutrition"
             ELSE "best_match"
    /\ i' = IF api_key # None /\ ingredients # <<>> THEN 1 ELSE i
    /\ UNCHANGED <<api_key, ingredients, loop_vars, processed_ingredients,
                   agg_vars, fault, rate_vars>>

\* 314: best_match(ingredient, api_key) on what search_food answers
BestMatch ==
    /\ pc = "best_match"
    /\ \E results \in SearchResults : fdc_id' = best_match(results)
    /\ pc' = "search_food_by_id"
    /\ UNCHANGED <<api_key, ingredients, i, food_data, processed_food,
                   conversion_factor, processed_ingredients, agg_vars, fault,
                   rate_vars>>

\* 316
SearchFoodById ==
    /\ pc = "search_food_by_id"
    /\ food_data' \in FoodDataFor(fdc_id)
    /\ pc' = "process_food"
    /\ UNCHANGED <<api_key, ingredients, i, fdc_id, processed_food,
                   conversion_factor, processed_ingredients, agg_vars, fault,
                   rate_vars>>

\* 318
ProcessFood ==
    /\ pc = "process_food"
    /\ processed_food' = process_food(food_data)
    /\ pc' = "calculate_conversion_factor"
    /\ UNCHANGED <<api_key, ingredients, i, fdc_id, food_data,
                   conversion_factor, processed_ingredients, agg_vars, fault,
                   rate_vars>>

\* 322-324: the call is outside any try, here and in main (479), so an
\* exception leaves main.
CalculateConversionFactor ==
    /\ pc = "calculate_conversion_factor"
    /\ LET r == calculate_conversion_factor(processed_food,
                    [quantity |-> ingredients[i].quantity,
                     unit |-> ingredients[i].unit])
       IN  /\ conversion_factor' = r.ret
           /\ fault' = r.exc
           /\ pc' = IF r.exc # "" THEN "aborted" ELSE "compute_ingredient_nutrition"
    /\ UNCHANGED <<api_key, ingredients, i, fdc_id, food_data, processed_food,
                   processed_ingredients, agg_vars, rate_vars>>

\* 329-333 and the loop's next iteration or the return at 338.  The except
\* at 334-336 is not reached: compute_ingredient_nutrition raises nothing on a
\* normalised record whose nutrient values are numbers, and a None it returns
\* is stored under the ingredient's name like a profile.
ComputeIngredientNutrition ==
    /\ pc = "compute_ingredient_nutrition"
    /\ processed_ingredients' =
           Append(processed_ingredients,
                  [name |-> ingredients[i].name,
                   profile |-> compute_ingredient_nutrition(processed_food,
                                                            conversion_factor)])
    /\ i' = i + 1
    /\ pc' = IF i = Len(ingredients) THEN "compute_recipe_nutrition" ELSE "best_match"
    /\ UNCHANGED <<api_key, ingredients, loop_vars, agg_vars, fault, rate_vars>>

(***************************************************************************)
(* compute_recipe_nutrition (416-464), one action per iteration of its     *)
(* loop, and the export (482-483).                                         *)
(***************************************************************************)
\* 427-436
ComputeRecipeNutrition ==
    /\ pc = "compute_recipe_nutrition"
    /\ IF processed_ingredients = <<>>
       THEN recipe_nutrition' = None /\ pc' = "export" /\ k' = k
       ELSE recipe_nutrition' = Some(EmptyReport) /\ pc' = "fold" /\ k' = 1
    /\ UNCHANGED <<api_key, ingredients, i, loop_vars, processed_ingredients,
                   exported, fault, rate_vars>>

\* 437-460, and 462-464 after the last item
Fold ==
    /\ pc = "fold"
    /\ recipe_nutrition' =
           Some(fold_ingredient(recipe_nutrition[1], processed_ingredients[k]))
    /\ k' = k + 1
    /\ pc' = IF k = Len(processed_ingredients) THEN "export" ELSE "fold"
    /\ UNCHANGED <<api_key, ingredients, i, loop_vars, processed_ingredients,
                   exported, fault, rate_vars>>

\* 482-483
Export ==
    /\ pc = "export"
    /\ exported' = Some(recipe_nutrition)
    /\ pc' = "done"
    /\ UNCHANGED <<api_key, ingredients, i, loop_vars, processed_ingredients,
                   k, recipe_nutrition, fault, rate_vars>>

Next ==
    \/ Main
    \/ BestMatch
    \/ SearchFoodById
    \/ ProcessFood
    \/ CalculateConversionFactor
    \/ ComputeIngredientNutrition
    \/ ComputeRecipeNutrition
    \/ Fold
    \/ Export

Spec == Init /\ [][Next]_vars

(***************************************************************************)
(* compute_recipe_nutrition on its own: the mapping it is given is drawn   *)
(* from profiles that are None, lack the key 'nutrients', or hold a list   *)
(* of nutrient entries some of which may not be dicts.                     *)
(***************************************************************************)
Entry(n, u, v) == [name |-> n, unitName |-> u, value |-> RInt(v), isdict |-> TRUE]

NotADict == [name |-> "", unitName |-> "", value |-> RInt(0), isdict |-> FALSE]

P5g == Entry("Protein", "g", 5)
P3g == Entry("Protein", "g", 3)
P3mg == Entry("Protein", "mg", 3)
F2g == Entry("Fat", "g", 2)

NutrientLists ==
    {<<>>, <<P5g>>, <<P3g>>, <<P3mg>>, <<F2g, P3g>>,
     <<NotADict>>, <<P5g, NotADict>>, <<NotADict, P5g>>, <<P3mg, NotADict, F2g>>}

Profile(ns) ==
    [fdcId |-> 101, description |-> "Flour, wheat",
     foodCategory |-> "Cereal Grains and Pasta", nutrients |-> ns, portions |-> <<>>]

Profiles == {None, Some(Profile(None))} \cup
            {Some(Profile(Some(ns))) : ns \in NutrientLists}

InitAgg ==
    /\ pc = "compute_recipe_nutrition"
    /\ \E len \in 0..MaxProfiles : \E ps \in [1..len -> Profiles] :
           processed_ingredients =
               [j \in 1..len |-> [name |-> IngredientNames[j], profile |-> ps[j]]]
    /\ api_key = Some("key")
    /\ ingredients = <<>>
    /\ i = 0
    /\ fdc_id = None /\ food_data = None
    /\ processed_food = None /\ conversion_factor = None
    /\ k = 0
    /\ recipe_nutrition = None
    /\ exported = None
    /\ fault = ""
    /\ RateIdle

NextAgg ==
    \/ ComputeRecipeNutrition
    \/ Fold

SpecAgg == InitAgg /\ [][NextAgg]_vars

(***************************************************************************)
(* The rate limiter: @sleep_and_retry @limits(calls=RATE_LIMIT,            *)
(* period=PERIOD) on search_food (93-94) and on search_food_by_id          *)
(* (167-168).  Each @limits(...) is a decorator object of its own, with    *)
(* its own num_calls and last_reset.  A call: if the period has elapsed,   *)
(* reset; count the call; over the limit, raise RateLimitException with    *)
(* the time remaining, which sleep_and_retry sleeps before calling again.  *)
(***************************************************************************)
limited_call(f) ==
    LET period_remaining == PERIOD - (now - last_reset[f])
        elapsed == period_remaining <= 0
        attempts == (IF elapsed THEN 0 ELSE num_calls[f]) + 1
        blocked == attempts > RATE_LIMIT
        at == IF blocked THEN now + period_remaining ELSE now
    IN  /\ at <= MaxTime
        /\ now' = at
        /\ num_calls' = [num_calls EXCEPT ![f] = IF blocked THEN 1 ELSE attempts]
        /\ last_reset' = [last_reset EXCEPT
                             ![f] = IF blocked \/ elapsed THEN at ELSE @]
        /\ admitted' = IF at \in DOMAIN admitted
                       THEN [admitted EXCEPT ![at] = @ + 1]
                       ELSE admitted @@ (at :> 1)

pipeline_idle ==
    <<pc, api_key, ingredients, i, loop_vars, processed_ingredients, agg_vars, fault>>

\* 314 -> 145: every iteration of the loop at 312 calls search_food ...
CallSearchFood ==
    /\ pc = "calls"
    /\ next_call = "search_food"
    /\ calls_made < MaxCalls
    /\ limited_call("search_food")
    /\ next_call' = "search_food_by_id"
    /\ calls_made' = calls_made + 1
    /\ UNCHANGED pipeline_idle

\* 316: ... and then search_food_by_id
CallSearchFoodById ==
    /\ pc = "calls"
    /\ next_call = "search_food_by_id"
    /\ calls_made < MaxCalls
    /\ limited_call("search_food_by_id")
    /\ next_call' = "search_food"
    /\ calls_made' = calls_made + 1
    /\ UNCHANGED pipeline_idle

\* time passes between two calls (a window's length at a time)
Tick ==
    /\ pc = "calls"
    /\ now + PERIOD <= MaxTime
    /\ now' = now + PERIOD
    /\ UNCHANGED <<num_calls, last_reset, admitted, next_call, calls_made>>
    /\ UNCHANGED pipeline_idle

InitRate ==
    /\ pc = "calls"
    /\ api_key = Some("key")
    /\ ingredients = <<>>
    /\ i = 0
    /\ fdc_id = None /\ food_data = None
    /\ processed_food = None /\ conversion_factor = None
    /\ processed_ingredients = <<>>
    /\ k = 0
    /\ recipe_nutrition = None
    /\ exported = None
    /\ fault = ""
    /\ RateIdle

NextRate ==
    \/ CallSearchFood
    \/ CallSearchFoodById
    \/ Tick

SpecRate == InitRate /\ [][NextRate]_vars

(***************************************************************************)
(* Properties.                                                             *)
(***************************************************************************)
\* the call at 324 has been made for ingredient i and i is still current
FactorCalled == pc \in {"compute_ingredient_nutrition", "aborted"}

Requested == [quantity |-> ingredients[i].quantity, unit |-> ingredients[i].unit]

HasReference == processed_food # None /\ processed_food[1].portions # <<>>

Reference == processed_food[1].portions[1]

ConvertibleTo(unit, std_unit) ==
    /\ unit \in ureg_defined
    /\ std_unit \in ureg_defined
    /\ ureg_dim(unit) = ureg_dim(std_unit)

NamesOf(entries) == [j \in 1..Len(entries) |-> entries[j].name]

\* C1: once the credential is present the run never aborts: no exception
\* leaves main, every ingredient is processed, and the report written lists
\* exactly the ingredients that were processed successfully.
C1_RunNeverAborts ==
    api_key # None =>
        /\ pc # "aborted"
        /\ fault = ""
        /\ pc = "done" =>
              /\ Len(processed_ingredients) = Len(ingredients)
              /\ exported[1] # None =>
                    NamesOf(exported[1][1].ingredients) =
                        NamesOf(SelectSeq(processed_ingredients,
                                          LAMBDA e : e.profile # None))

\* the portion has the numbers the formula at 378 needs
FormulaDefined(ref) ==
    ref.amount # None /\ ref.amount # Some(0) /\ ref.gramWeight # None

\* C3: calculate_conversion_factor returns None, and raises nothing, whenever
\* the requested unit and the reference portion's unit are incompatible or
\* one of them is not a unit of the registry (stated for a reference portion
\* that has its numbers: the others are C4's).
C3_UnconvertibleReturnsNone ==
    (FactorCalled /\ HasReference /\ FormulaDefined(Reference)
        /\ ~ConvertibleTo(Requested.unit, Reference.unit))
    => (fault = "" /\ conversion_factor = None)

\* C4: calculate_conversion_factor returns None, and raises nothing, when the
\* reference portion has amount 0 or lacks its amount or its gramWeight.
C4_DegenerateReferenceReturnsNone ==
    (FactorCalled /\ HasReference
        /\ (Reference.amount = None \/ Reference.gramWeight = None
            \/ Reference.amount = Some(0)))
    => (fault = "" /\ conversion_factor = None)

\* C5: process_food returns None for an absent record, one without a nutrient
\* list, one without portions and one whose portions are all dropped; a record
\* it returns has at least one portion, only portions with a valid unit, and
\* exactly the nutrients whose amount is not null.
C5_NormalizedRecordHasValidPortion ==
    pc = "calculate_conversion_factor" =>
        /\ (\/ food_data = None
            \/ food_data[1].foodNutrients = None
            \/ food_data[1].foodPortions = None
            \/ \A j \in 1..Len(food_data[1].foodPortions[1]) :
                   ~is_valid_unit(food_data[1].foodPortions[1][j].unit))
           => processed_food = None
        /\ processed_food # None =>
              /\ Len(processed_food[1].portions) >= 1
              /\ \A j \in 1..Len(processed_food[1].portions) :
                     is_valid_unit(processed_food[1].portions[j].unit)
              /\ Len(processed_food[1].nutrients) =
                     Cardinality({j \in 1..Len(food_data[1].foodNutrients[1]) :
                                     food_data[1].foodNutrients[1][j].amount # None})

\* (converted_magnitude * gramWeight) / (amount * 100) for quantity q of unit
\* u against the portion ref
ExpectedFactor(q, u, ref) ==
    Rat(q * ureg_scale(u) * ref.gramWeight[1],
        ureg_scale(ref.unit) * ref.amount[1] * 100)

\* the scaling at 331 has been made for ingredient i - 1, whose record is
\* still in processed_food
Scaled == pc \in {"best_match", "compute_recipe_nutrition"} /\ i >= 2

C9_FactorStrictlyPositive ==
    (FactorCalled /\ HasReference /\ FormulaDefined(Reference)
        /\ Requested.quantity > 0
        /\ ConvertibleTo(Requested.unit, Reference.unit))
    => /\ fault = ""
       /\ conversion_factor # None
       /\ conversion_factor[1][1] > 0
       /\ ~falsy_factor(conversion_factor)

\* C11: compute_ingredient_nutrition returns None exactly when the record or
\* the factor is absent; otherwise the profile's nutrients are the record's, in
\* the same order, with value * factor and name and unitName unchanged, its
\* fdcId, description, foodCategory and portions are the record's, and the
\* record is still what process_food returned.
C11_ProfileAbsentOnlyForAbsentInput ==
    Scaled =>
        LET profile == processed_ingredients[i - 1].profile
        IN  /\ (profile = None) <=>
                   (processed_food = None \/ conversion_factor = None)
            /\ processed_food = process_food(food_data)
            /\ profile # None =>
                  /\ profile[1].fdcId = processed_food[1].fdcId
                  /\ profile[1].description = processed_food[1].description
                  /\ profile[1].foodCategory = processed_food[1].foodCategory
                  /\ profile[1].portions = processed_food[1].portions
                  /\ Len(profile[1].nutrients[1]) =
                         Len(processed_food[1].nutrients)
                  /\ \A j \in 1..Len(processed_food[1].nutrients) :
                        /\ profile[1].nutrients[1][j].name =
                               processed_food[1].nutrients[j].name
                        /\ profile[1].nutrients[1][j].unitName =
                               processed_food[1].nutrients[j].unitName
                        /\ profile[1].nutrients[1][j].value =
                               Rat(processed_food[1].nutrients[j].value
                                       * conversion_factor[1][1],
                                   conversion_factor[1][2])

(***************************************************************************)
(* Aggregation.                                                            *)
(***************************************************************************)
\* the entries folded so far (all of them once the loop has ended)
Folded == SubSeq(processed_ingredients, 1, k - 1)

\* the nutrient entries of a profile that the loop at 446 reaches: none for
\* a profile that is None or lacks 'nutrients', else those before the first
\* entry that is not a dict
RECURSIVE DictPrefix(_)
DictPrefix(ns) ==
    IF ns = <<>> \/ ~Head(ns).isdict THEN <<>>
    ELSE <<Head(ns)>> \o DictPrefix(Tail(ns))

Reached(entry) ==
    IF entry.profile = None \/ entry.profile[1].nutrients = None THEN <<>>
    ELSE DictPrefix(entry.profile[1].nutrients[1])

RECURSIVE ReachedOfAll(_)
ReachedOfAll(entries) ==
    IF entries = <<>> THEN <<>>
    ELSE Reached(Head(entries)) \o ReachedOfAll(Tail(entries))

RECURSIVE SumOf(_, _)
SumOf(n, ns) ==
    IF ns = <<>> THEN RInt(0)
    ELSE IF Head(ns).name = n THEN RAdd(Head(ns).value, SumOf(n, Tail(ns)))
    ELSE SumOf(n, Tail(ns))

FirstUnit(n, ns) ==
    ns[CHOOSE j \in 1..Len(ns) :
           ns[j].name = n /\ \A m \in 1..(j - 1) : ns[m].name # n].unitName

Folding == pc \in {"fold", "export", "done"} /\ recipe_nutrition # None

\* C10: after folding any prefix of the ingredients, in the order supplied,
\* the report lists the ingredients of the prefix that have a profile, and
\* totalNutrients has exactly one key per nutrient name seen in them, its
\* value the sum of that nutrient's values over them and its unitName that of
\* the first occurrence.
C10_TotalsAreSumsOverPrefix ==
    Folding =>
        LET included == SelectSeq(Folded, LAMBDA e : e.profile # None)
            ns == ReachedOfAll(included)
            total == recipe_nutrition[1].totalNutrients
        IN  /\ NamesOf(recipe_nutrition[1].ingredients) = NamesOf(included)
            /\ DOMAIN total = {ns[j].name : j \in 1..Len(ns)}
            /\ \A n \in DOMAIN total :
                  /\ total[n].value = SumOf(n, ns)
                  /\ total[n].unitName = FirstUnit(n, ns)

\* C10 witness: two ingredients with a profile were folded and both
\* contributed to the Protein total, which is more than the first one's value
C10_Witness ==
    /\ Folding /\ pc = "export"
    /\ Len(recipe_nutrition[1].ingredients) = 2
    /\ \A j \in 1..2 : \E m \in 1..Len(recipe_nutrition[1].ingredients[j].nutrition) :
           recipe_nutrition[1].ingredients[j].nutrition[m].name = "Protein"
    /\ recipe_nutrition[1].totalNutrients["Protein"].value
           # recipe_nutrition[1].ingredients[1].nutrition[2].value

\* a profile compute_recipe_nutrition folds without a fault
WellFormed(entry) ==
    /\ entry.profile # None
    /\ entry.profile[1].nutrients # None
    /\ \A j \in 1..Len(entry.profile[1].nutrients[1]) :
           entry.profile[1].nutrients[1][j].isdict

Returned == pc = "export" /\ recipe_nutrition # None

\* C2: an ingredient whose profile raises a fault is skipped entirely: the
\* report is the one of the ingredients that raise none (it lists only them
\* and its totals are theirs).
C2_FaultyIngredientSkippedEntirely ==
    Returned =>
        recipe_nutrition[1] =
            fold_all(EmptyReport, SelectSeq(processed_ingredients, WellFormed))

Orders(n) == {p \in [1..n -> 1..n] : \A a, b \in 1..n : a # b => p[a] # p[b]}

Reordered(entries, p) == [j \in 1..Len(entries) |-> entries[p[j]]]

\* C7 as claimed: every order of the ingredients yields the same
\* totalNutrients, unitName included.
C7_TotalsIdenticalInAnyOrder ==
    Returned =>
        \A p \in Orders(Len(processed_ingredients)) :
            fold_all(EmptyReport, Reordered(processed_ingredients, p)).totalNutrients
                = recipe_nutrition[1].totalNutrients

\* all the entries of nutrient n that are reached carry one unitName
UnitsAgree(n, ns) ==
    \A a, b \in 1..Len(ns) :
        (ns[a].name = n /\ ns[b].name = n) => ns[a].unitName = ns[b].unitName

\* C7 amended: every order of the ingredients yields the same keys and, for
\* each key, the same value; the unitName of a key is that of its first
\* occurrence in the order folded, so it is the same in every order when the
\* entries of that nutrient agree on it.
C7_ValuesIdenticalInAnyOrder ==
    Returned =>
        LET total == recipe_nutrition[1].totalNutrients
            ns == ReachedOfAll(processed_ingredients)
        IN  /\ \A n \in DOMAIN total : total[n].unitName = FirstUnit(n, ns)
            /\ \A p \in Orders(Len(processed_ingredients)) :
                  LET t == fold_all(EmptyReport,
                                    Reordered(processed_ingredients, p)).totalNutrients
                  IN  /\ DOMAIN t = DOMAIN total
                      /\ \A n \in DOMAIN total :
                            /\ t[n].value = total[n].value
                            /\ UnitsAgree(n, ns) => t[n].unitName = total[n].unitName

\* C7 witness: three ingredients were folded, two of them with Protein of
\* different values, and the total is their sum
C7_Witness ==
    /\ Returned
    /\ Len(processed_ingredients) = 3
    /\ processed_ingredients[1].profile = Some(Profile(Some(<<P5g>>)))
    /\ processed_ingredients[3].profile = Some(Profile(Some(<<F2g, P3g>>)))
    /\ recipe_nutrition[1].totalNutrients["Protein"] =
           [value |-> RInt(8), unitName |-> "g"]

(***************************************************************************)
(* Rate limit.                                                             *)
(***************************************************************************)
RECURSIVE AdmittedIn(_)
AdmittedIn(times) ==
    IF times = {} THEN 0
    ELSE LET t == CHOOSE u \in times : TRUE
         IN  admitted[t] + AdmittedIn(times \ {t})

\* C6: the requests let through to the food-data source (search_food and
\* search_food_by_id together) in any window of PERIOD seconds never exceed
\* RATE_LIMIT.
C6_SingleBudgetPerWindow ==
    \A t \in DOMAIN admitted :
        AdmittedIn({u \in DOMAIN admitted : t <= u /\ u < t + PERIOD}) <= RATE_LIMIT

====
